---- MODULE Spec2Model ----
(***************************************************************************)
(* Translation client (App.tsx, EnhanceCard, LanguagePanel, word-details   *)
(* slice) as a state machine.  Every user event and every completion of an *)
(* awaited call is one atomic step of the single UI event loop.            *)
(* Texts are sequences of characters, so trimming, splitting on whitespace *)
(* and joining are computed the way the JavaScript does.                   *)
(***************************************************************************)
EXTENDS Integers, Sequences, FiniteSets, TLC

(***************************************************************************)
(* Bounds and constants                                                    *)
(***************************************************************************)
\* App.tsx:43 sets 500; the model keeps the comparison and scales the number
\* so that texts over the limit fit the bounded input sets.
WORD_LIMIT == 2
\* outstanding translate requests plus pending cool-down timers the model follows
MaxPending == 2
\* microphone requests and recorders alive together the model follows
MaxMic == 2
\* enhancement requests one EnhanceCard instance may issue
MaxToken == 2
\* enhancement requests in flight together, discarded instances included
MaxEnhReqs == 2
\* word-details requests in flight together
MaxWordReqs == 2
MaxTts == 2

Space == " "
Newline == "\n"
WhiteSpace == {Space, Newline}
Languages == {"en", "vi"}
NoToasts == {}
\* null for a text; a one-element sequence, so that it compares with texts
Null == <<"null">>

\* null for a word-details record
NoDetails == [definedWord |-> <<>>, meaning |-> "null", synonyms |-> <<>>, antonyms |-> <<>>]

Min(a, b) == IF a < b THEN a ELSE b

(***************************************************************************)
(* String primitives of the JavaScript runtime, on character sequences     *)
(***************************************************************************)
RECURSIVE TrimStart(_)
TrimStart(s) ==
  IF s = <<>> THEN s
  ELSE IF Head(s) \in WhiteSpace THEN TrimStart(Tail(s)) ELSE s

RECURSIVE TrimEnd(_)
TrimEnd(s) ==
  IF s = <<>> THEN s
  ELSE IF s[Len(s)] \in WhiteSpace THEN TrimEnd(SubSeq(s, 1, Len(s) - 1)) ELSE s

\* String.prototype.trim
Trim(s) == TrimEnd(TrimStart(s))

\* s.split(/\s+/): every maximal whitespace run is one separator
RECURSIVE SplitFrom(_, _)
SplitFrom(s, cur) ==
  IF s = <<>> THEN <<cur>>
  ELSE IF Head(s) \in WhiteSpace THEN <<cur>> \o SplitFrom(TrimStart(s), <<>>)
  ELSE SplitFrom(Tail(s), Append(cur, Head(s)))

SplitWs(s) == SplitFrom(s, <<>>)

\* words.slice(0, n)
Slice(words, n) == SubSeq(words, 1, Min(n, Len(words)))

\* words.join(' ')
RECURSIVE Join(_)
Join(words) ==
  IF words = <<>> THEN <<>>
  ELSE IF Len(words) = 1 THEN words[1]
  ELSE words[1] \o <<Space>> \o Join(Tail(words))

\* text.trim() === '' ? [] : text.trim().split(/\s+/)
WordsOf(text) == IF Trim(text) = <<>> THEN <<>> ELSE SplitWs(Trim(text))

\* !text.trim()
IsBlank(text) == Trim(text) = <<>>

(***************************************************************************)
(* State                                                                   *)
(***************************************************************************)
VARIABLES
  \* App: translation session (App.tsx:48-53)
  sourceText, translatedText, sourceLanguage, targetLanguage, sourceWordCount,
  \* App: translate request coordination (App.tsx:55,61,72)
  isTranslating, isThrottled, trReqs, throttleTimers,
  \* App: recording (App.tsx:58,60,70)
  isRecording, isProcessingAudio, micPending, recorders, recorderRef, mounted,
  \* EnhanceCard instance (part_002:367-376) and its requests in flight
  enhancementFeaturesEnabled, customInstruction, isLoadingEnhancement,
  processedEnhancedText, generateEnhancementRequestId, enhReqs,
  \* App: word definition (App.tsx:63-65,76) and its requests in flight
  activeWordForDefinition, currentWordDetails, isWordDetailLoading,
  wordDetailsCache, wordReqs,
  \* App: text-to-speech (App.tsx:56-57), its requests in flight, the raw PCM
  \* sources playing (each on its own AudioContext), the shared Audio element
  \* of audioPlayerRef (App.tsx:67) with its pending play() promises, whether
  \* the browser has the Web Audio API, and the audioDataUri of the last
  \* text-to-speech response
  isLoadingSourceTTS, isLoadingTargetTTS, ttsReqs, pcmSources, audioPlayer, playPromises,
  webAudio, audioSrc,
  \* observation: the user event or completion of the last step, the toasts
  \* it showed, and (history, kept by SpecObserved only) the last successful
  \* translate request with its result
  lastEvent, toasts, lastOk

sessionVars == <<sourceText, translatedText, sourceLanguage, targetLanguage, sourceWordCount>>
translateVars == <<isTranslating, isThrottled, trReqs, throttleTimers>>
recordingVars == <<isRecording, isProcessingAudio, micPending, recorders, recorderRef,
                   mounted>>
cardVars == <<enhancementFeaturesEnabled, customInstruction, isLoadingEnhancement,
              processedEnhancedText, generateEnhancementRequestId>>
enhanceVars == <<cardVars, enhReqs>>
wordVars == <<activeWordForDefinition, currentWordDetails, isWordDetailLoading,
              wordDetailsCache, wordReqs>>
audioVars == <<isLoadingSourceTTS, isLoadingTargetTTS, ttsReqs, pcmSources, audioPlayer,
               playPromises, webAudio, audioSrc>>
vars == <<sessionVars, translateVars, recordingVars, enhanceVars, wordVars, audioVars,
          lastEvent, toasts, lastOk>>

(***************************************************************************)
(* Word-limit enforcement: the three copies of the code                    *)
(***************************************************************************)
\* variant: the words are always rejoined, also under the limit
LimitTypedRejoined(newText) ==
  LET words == WordsOf(newText) IN
  [text |-> Join(Slice(words, WORD_LIMIT)), count |-> Min(Len(words), WORD_LIMIT),
   cut |-> Len(words) > WORD_LIMIT]

\* handleSourceTextChange: words, currentWordCount, textToUpdate
LimitTyped(newText) ==
  LET words == WordsOf(newText) IN
  IF Len(words) > WORD_LIMIT
  THEN [text |-> Join(Slice(words, WORD_LIMIT)), count |-> WORD_LIMIT, cut |-> TRUE]
  ELSE [text |-> newText, count |-> Len(words), cut |-> FALSE]

\* variant: the count of a cut transcription is not set to the limit
LimitTranscribedUncapped(transcription) ==
  LET words == WordsOf(transcription) IN
  IF Len(words) > WORD_LIMIT
  THEN [text |-> Join(Slice(words, WORD_LIMIT)), count |-> Len(words), cut |-> TRUE]
  ELSE [text |-> transcription, count |-> Len(words), cut |-> FALSE]

\* reader.onloadend: words, currentWordCount, textToSet
LimitTranscribed(transcription) ==
  LET words == WordsOf(transcription) IN
  IF Len(words) > WORD_LIMIT
  THEN [text |-> Join(Slice(words, WORD_LIMIT)), count |-> WORD_LIMIT, cut |-> TRUE]
  ELSE [text |-> transcription, count |-> Len(words), cut |-> FALSE]

\* variant: the moved text is counted but not cut
LimitSwappedUncut(textBeforeSwapTarget) ==
  LET words == WordsOf(textBeforeSwapTarget) IN
  [text |-> textBeforeSwapTarget, count |-> Min(Len(words), WORD_LIMIT),
   cut |-> Len(words) > WORD_LIMIT]

\* handleSwapLanguages: words, currentWordCount, textToSetAsSource
LimitSwapped(textBeforeSwapTarget) ==
  LET words == WordsOf(textBeforeSwapTarget) IN
  IF Len(words) > WORD_LIMIT
  THEN [text |-> Join(Slice(words, WORD_LIMIT)), count |-> WORD_LIMIT, cut |-> TRUE]
  ELSE [text |-> textBeforeSwapTarget, count |-> Len(words), cut |-> FALSE]

(***************************************************************************)
(* EnhanceCard mounting.  App renders <EnhanceCard key={enhanceCardResetKey}>*)
(* only while translatedText.trim() is non-empty; a new key or a blank     *)
(* translatedText discards the instance with its state and its ref, and    *)
(* the requests it issued keep running against the discarded instance.     *)
(***************************************************************************)
FreshCard ==
  /\ enhancementFeaturesEnabled' = FALSE
  /\ customInstruction' = <<>>
  /\ isLoadingEnhancement' = FALSE
  /\ processedEnhancedText' = Null
  /\ generateEnhancementRequestId' = 0

\* a request of the discarded instance: its closure keeps comparing its token
\* with that instance's ref, whose value no longer changes
Orphan(r) ==
  IF r.live
  THEN [r EXCEPT !.live = FALSE, !.latest = (r.token = generateEnhancementRequestId)]
  ELSE r

OrphanAll(reqs) == [i \in DOMAIN reqs |-> Orphan(reqs[i])]

\* keyBumped: the step called setEnhanceCardResetKey(prev => prev + 1)
EnhanceCardRender(keyBumped) ==
  IF keyBumped \/ IsBlank(translatedText) \/ IsBlank(translatedText')
  THEN FreshCard /\ enhReqs' = OrphanAll(enhReqs)
  ELSE UNCHANGED enhanceVars

(***************************************************************************)
(* handleTranslateText (App.tsx:98-166), up to its first await.  The value *)
(* is the state the call leaves: translatedText, isTranslating,            *)
(* isThrottled, the requests in flight and the toasts shown.               *)
(***************************************************************************)
TranslateCall ==
  [translatedText |-> translatedText, isTranslating |-> isTranslating,
   isThrottled |-> isThrottled, trReqs |-> trReqs, toasts |-> NoToasts]

\* variant: the isThrottled and isTranslating checks are missing
HandleTranslateTextUnguarded(textForTranslation, effectiveSourceLang, effectiveTargetLang) ==
  IF effectiveSourceLang = effectiveTargetLang
  THEN [TranslateCall EXCEPT !.translatedText =
          IF ~IsBlank(textForTranslation) THEN textForTranslation ELSE <<>>]
  ELSE IF IsBlank(textForTranslation)
  THEN [TranslateCall EXCEPT !.translatedText = <<>>]
  ELSE [TranslateCall EXCEPT
          !.isTranslating = TRUE,
          !.isThrottled = TRUE,
          !.trReqs = Append(trReqs, [text |-> textForTranslation,
                                     sourceLanguage |-> effectiveSourceLang,
                                     targetLanguage |-> effectiveTargetLang])]

\* variant: the call sets isTranslating and leaves isThrottled
HandleTranslateTextUnthrottled(textForTranslation, effectiveSourceLang, effectiveTargetLang) ==
  IF effectiveSourceLang = effectiveTargetLang
  THEN [TranslateCall EXCEPT !.translatedText =
          IF ~IsBlank(textForTranslation) THEN textForTranslation ELSE <<>>]
  ELSE IF IsBlank(textForTranslation)
  THEN [TranslateCall EXCEPT !.translatedText = <<>>]
  ELSE IF isThrottled
  THEN [TranslateCall EXCEPT !.toasts = {"throttled"}]
  ELSE IF isTranslating
  THEN TranslateCall
  ELSE [TranslateCall EXCEPT
          !.isTranslating = TRUE,
          !.trReqs = Append(trReqs, [text |-> textForTranslation,
                                     sourceLanguage |-> effectiveSourceLang,
                                     targetLanguage |-> effectiveTargetLang])]

HandleTranslateText(textForTranslation, effectiveSourceLang, effectiveTargetLang) ==
  IF effectiveSourceLang = effectiveTargetLang
  THEN [TranslateCall EXCEPT !.translatedText =
          IF ~IsBlank(textForTranslation) THEN textForTranslation ELSE <<>>]
  ELSE IF IsBlank(textForTranslation)
  THEN [TranslateCall EXCEPT !.translatedText = <<>>]
  ELSE IF isThrottled
  THEN [TranslateCall EXCEPT !.toasts = {"throttled"}]
  ELSE IF isTranslating
  THEN TranslateCall
  ELSE [TranslateCall EXCEPT
          !.isTranslating = TRUE,
          !.isThrottled = TRUE,
          !.trReqs = Append(trReqs, [text |-> textForTranslation,
                                     sourceLanguage |-> effectiveSourceLang,
                                     targetLanguage |-> effectiveTargetLang])]

\* the state a handleTranslateText call leaves, written to the variables
ApplyTranslateCall(r, moreToasts) ==
  /\ Len(r.trReqs) + throttleTimers <= MaxPending
  /\ translatedText' = r.translatedText
  /\ isTranslating' = r.isTranslating
  /\ isThrottled' = r.isThrottled
  /\ trReqs' = r.trReqs
  /\ toasts' = r.toasts \cup moreToasts
  /\ UNCHANGED throttleTimers

(***************************************************************************)
(* Source panel                                                            *)
(***************************************************************************)
\* Textarea onChange -> handleSourceTextChange (App.tsx:585-606); the textarea
\* is read-only while audio is processed (part_002:207)
HandleSourceTextChange(newText) ==
  LET limited == LimitTyped(newText)
      previousWordCount == Len(WordsOf(sourceText))
      textToUpdate == limited.text
  IN
  /\ ~(isLoadingSourceTTS \/ isProcessingAudio)
  /\ newText # sourceText
  /\ sourceText' = textToUpdate
  /\ sourceWordCount' = limited.count
  /\ translatedText' = IF IsBlank(textToUpdate) THEN <<>>
                       ELSE IF sourceLanguage = targetLanguage THEN textToUpdate
                       ELSE translatedText
  /\ toasts' = IF limited.cut /\ (Len(newText) > Len(sourceText) \/ previousWordCount < WORD_LIMIT)
               THEN {"wordLimit"} ELSE NoToasts
  /\ EnhanceCardRender(TRUE)
  /\ lastEvent' = "type"
  /\ UNCHANGED <<sourceLanguage, targetLanguage, translateVars, recordingVars, wordVars, audioVars, lastOk>>

\* onClear (App.tsx:663); the button is disabled while audio is processed
\* (part_002:298)
OnClear ==
  /\ ~(isLoadingSourceTTS \/ isProcessingAudio)
  /\ sourceText' = <<>>
  /\ translatedText' = <<>>
  /\ sourceWordCount' = 0
  /\ toasts' = NoToasts
  /\ EnhanceCardRender(TRUE)
  /\ lastEvent' = "clear"
  /\ UNCHANGED <<sourceLanguage, targetLanguage, translateVars, recordingVars, wordVars, audioVars, lastOk>>

(***************************************************************************)
(* Translate triggers                                                      *)
(***************************************************************************)
\* translate button (App.tsx:682-686)
ClickTranslate ==
  /\ ~(isTranslating \/ isProcessingAudio \/ isRecording \/ isThrottled \/ IsBlank(sourceText))
  /\ ApplyTranslateCall(HandleTranslateText(sourceText, sourceLanguage, targetLanguage), NoToasts)
  /\ EnhanceCardRender(FALSE)
  /\ lastEvent' = "translateButton"
  /\ UNCHANGED <<sourceText, sourceLanguage, targetLanguage, sourceWordCount,
                 recordingVars, wordVars, audioVars, lastOk>>

\* Ctrl+Enter (App.tsx:170-176)
HandleKeyDown ==
  /\ IF ~IsBlank(sourceText) /\ ~isTranslating /\ ~isThrottled
     THEN ApplyTranslateCall(HandleTranslateText(sourceText, sourceLanguage, targetLanguage), NoToasts)
     ELSE toasts' = NoToasts /\ UNCHANGED <<translatedText, translateVars>>
  /\ EnhanceCardRender(FALSE)
  /\ lastEvent' = "ctrlEnter"
  /\ UNCHANGED <<sourceText, sourceLanguage, targetLanguage, sourceWordCount,
                 recordingVars, wordVars, audioVars, lastOk>>

\* source LanguageSelector (App.tsx:655) -> handleSourceLanguageChange (612-625)
HandleSourceLanguageChange(lang) ==
  /\ ~(isProcessingAudio \/ isRecording)
  /\ lang # sourceLanguage
  /\ sourceLanguage' = lang
  /\ IF ~IsBlank(sourceText)
     THEN ApplyTranslateCall(HandleTranslateText(sourceText, lang, targetLanguage), NoToasts)
     ELSE translatedText' = <<>> /\ toasts' = NoToasts /\ UNCHANGED translateVars
  /\ EnhanceCardRender(TRUE)
  /\ lastEvent' = "sourceLanguage"
  /\ UNCHANGED <<sourceText, targetLanguage, sourceWordCount, recordingVars, wordVars, audioVars, lastOk>>

\* target LanguageSelector (App.tsx:723) -> handleTargetLanguageChange (627-640)
HandleTargetLanguageChange(lang) ==
  /\ ~(isProcessingAudio \/ isRecording \/ isTranslating)
  /\ lang # targetLanguage
  /\ targetLanguage' = lang
  /\ IF ~IsBlank(sourceText)
     THEN ApplyTranslateCall(HandleTranslateText(sourceText, sourceLanguage, lang), NoToasts)
     ELSE translatedText' = <<>> /\ toasts' = NoToasts /\ UNCHANGED translateVars
  /\ EnhanceCardRender(TRUE)
  /\ lastEvent' = "targetLanguage"
  /\ UNCHANGED <<sourceText, sourceLanguage, sourceWordCount, recordingVars, wordVars, audioVars, lastOk>>

\* swap button (App.tsx:698-702) -> handleSwapLanguages (484-520)
HandleSwapLanguages ==
  LET newSourceLang == targetLanguage
      newTargetLang == sourceLanguage
      limited == LimitSwapped(translatedText)
      textToSetAsSource == limited.text
      limitToast == IF limited.cut THEN {"wordLimitSwap"} ELSE NoToasts
  IN
  /\ ~(isTranslating \/ isProcessingAudio \/ isRecording \/ isThrottled)
  /\ sourceLanguage' = newSourceLang
  /\ targetLanguage' = newTargetLang
  /\ sourceText' = textToSetAsSource
  /\ sourceWordCount' = limited.count
  /\ IF ~IsBlank(textToSetAsSource) /\ newSourceLang # newTargetLang
     THEN ApplyTranslateCall(HandleTranslateText(textToSetAsSource, newSourceLang, newTargetLang),
                             limitToast)
     ELSE /\ translatedText' = IF ~IsBlank(textToSetAsSource) THEN textToSetAsSource ELSE <<>>
          /\ toasts' = limitToast
          /\ UNCHANGED translateVars
  /\ EnhanceCardRender(TRUE)
  /\ lastEvent' = "swap"
  /\ UNCHANGED <<recordingVars, wordVars, audioVars, lastOk>>

(***************************************************************************)
(* handleTranslateText after the await (App.tsx:143-165)                   *)
(***************************************************************************)
RemoveAt(seq, i) == SubSeq(seq, 1, i - 1) \o SubSeq(seq, i + 1, Len(seq))

\* variant: a successful call starts no cool-down timer
TranslateOkNoTimer(i, result) ==
  /\ i \in DOMAIN trReqs
  /\ translatedText' = result
  /\ isTranslating' = FALSE
  /\ trReqs' = RemoveAt(trReqs, i)
  /\ toasts' = NoToasts
  /\ lastOk' = IF lastOk.kept
               THEN [lastOk EXCEPT !.last =
                       <<[text |-> trReqs[i].text, sourceLanguage |-> trReqs[i].sourceLanguage,
                          targetLanguage |-> trReqs[i].targetLanguage, result |-> result]>>]
               ELSE lastOk
  /\ EnhanceCardRender(FALSE)
  /\ lastEvent' = "translateOk"
  /\ UNCHANGED <<sourceText, sourceLanguage, targetLanguage, sourceWordCount, isThrottled,
                 throttleTimers, recordingVars, wordVars, audioVars>>

\* response.ok: setTranslatedText(result.translatedText), then finally
TranslateOk(i, result) ==
  /\ i \in DOMAIN trReqs
  /\ translatedText' = result
  /\ isTranslating' = FALSE
  /\ throttleTimers' = throttleTimers + 1
  /\ trReqs' = RemoveAt(trReqs, i)
  /\ toasts' = NoToasts
  /\ lastOk' = IF lastOk.kept
               THEN [lastOk EXCEPT !.last =
                       <<[text |-> trReqs[i].text, sourceLanguage |-> trReqs[i].sourceLanguage,
                          targetLanguage |-> trReqs[i].targetLanguage, result |-> result]>>]
               ELSE lastOk
  /\ EnhanceCardRender(FALSE)
  /\ lastEvent' = "translateOk"
  /\ UNCHANGED <<sourceText, sourceLanguage, targetLanguage, sourceWordCount, isThrottled,
                 recordingVars, wordVars, audioVars>>

\* variant: a failed call lifts the throttle at once and starts no timer
TranslateFailNoCooldown(i) ==
  /\ i \in DOMAIN trReqs
  /\ translatedText' = <<>>
  /\ isTranslating' = FALSE
  /\ isThrottled' = FALSE
  /\ trReqs' = RemoveAt(trReqs, i)
  /\ toasts' = {"translationFailed"}
  /\ EnhanceCardRender(FALSE)
  /\ lastEvent' = "translateFail"
  /\ UNCHANGED <<sourceText, sourceLanguage, targetLanguage, sourceWordCount, throttleTimers,
                 recordingVars, wordVars, audioVars, lastOk>>

\* variant: a failed call keeps the translation on screen
TranslateFailKeepsText(i) ==
  /\ i \in DOMAIN trReqs
  /\ translatedText' = translatedText
  /\ isTranslating' = FALSE
  /\ throttleTimers' = throttleTimers + 1
  /\ trReqs' = RemoveAt(trReqs, i)
  /\ toasts' = {"translationFailed"}
  /\ EnhanceCardRender(FALSE)
  /\ lastEvent' = "translateFail"
  /\ UNCHANGED <<sourceText, sourceLanguage, targetLanguage, sourceWordCount, isThrottled,
                 recordingVars, wordVars, audioVars, lastOk>>

\* fetch rejected or !response.ok: catch, then finally
TranslateFail(i) ==
  /\ i \in DOMAIN trReqs
  /\ translatedText' = <<>>
  /\ isTranslating' = FALSE
  /\ throttleTimers' = throttleTimers + 1
  /\ trReqs' = RemoveAt(trReqs, i)
  /\ toasts' = {"translationFailed"}
  /\ EnhanceCardRender(FALSE)
  /\ lastEvent' = "translateFail"
  /\ UNCHANGED <<sourceText, sourceLanguage, targetLanguage, sourceWordCount, isThrottled,
                 recordingVars, wordVars, audioVars, lastOk>>

\* the setTimeout callback of the finally block (App.tsx:162-164)
ThrottleTimeout ==
  /\ throttleTimers > 0
  /\ throttleTimers' = throttleTimers - 1
  /\ isThrottled' = FALSE
  /\ toasts' = NoToasts
  /\ lastEvent' = "throttleTimeout"
  /\ UNCHANGED <<sessionVars, isTranslating, trReqs, recordingVars, enhanceVars, wordVars, audioVars, lastOk>>

(***************************************************************************)
(* Recording (App.tsx:397-472).  A recorder is "recording", then "stopped" *)
(* (stop() called, its stop event not yet delivered), then "processing"    *)
(* (onstop ran; the blob is read and the speech-to-text request is in      *)
(* flight).  Its stream's tracks are stopped when the request completes,   *)
(* which removes it.  recorderRef is the position of mediaRecorderRef's    *)
(* recorder, 0 when the ref is null or its recorder is gone.               *)
(***************************************************************************)
\* A stream that was acquired and whose recorder could not be created or
\* started is "noRecorder".  mounted is FALSE once App has been torn down:
\* its state setters then change nothing, while its pending callbacks run.
\* startRecording up to await getUserMedia
StartRecording ==
  /\ micPending + Len(recorders) < MaxMic
  /\ micPending' = micPending + 1
  /\ toasts' = NoToasts
  /\ UNCHANGED <<isRecording, isProcessingAudio, recorders, recorderRef, mounted>>

\* stopRecording (App.tsx:465-470)
StopRecording ==
  /\ IF recorderRef # 0 /\ recorders[recorderRef] = "recording"
     THEN /\ recorders' = [recorders EXCEPT ![recorderRef] = "stopped"]
          /\ isRecording' = FALSE
     ELSE UNCHANGED <<recorders, isRecording>>
  /\ toasts' = NoToasts
  /\ UNCHANGED <<isProcessingAudio, micPending, recorderRef, mounted>>

\* record button (part_002:240-244) -> handleToggleRecording (App.tsx:472)
HandleToggleRecording ==
  /\ mounted
  /\ ~(isLoadingSourceTTS \/ isProcessingAudio)
  /\ IF isRecording THEN StopRecording ELSE StartRecording
  /\ lastEvent' = "toggleRecording"
  /\ UNCHANGED <<sessionVars, translateVars, enhanceVars, wordVars, audioVars, lastOk>>

\* getUserMedia resolved: recorder created and started (App.tsx:400-457)
MicGranted ==
  /\ micPending > 0
  /\ micPending' = micPending - 1
  /\ recorders' = Append(recorders, "recording")
  /\ recorderRef' = Len(recorders) + 1
  /\ isRecording' = (IF mounted THEN TRUE ELSE isRecording)
  /\ toasts' = {"recordingStarted"}
  /\ lastEvent' = "micGranted"
  /\ UNCHANGED <<isProcessingAudio, mounted, sessionVars, translateVars, enhanceVars,
                 wordVars, audioVars, lastOk>>

\* getUserMedia resolved, then new MediaRecorder(stream, {mimeType}) or
\* start() throws: the catch block (App.tsx:458-461) shows the notice; the
\* stream is not touched
MicGrantedRecorderFails ==
  /\ micPending > 0
  /\ micPending' = micPending - 1
  /\ recorders' = Append(recorders, "noRecorder")
  /\ toasts' = {"micError"}
  /\ lastEvent' = "recorderFailed"
  /\ UNCHANGED <<isRecording, isProcessingAudio, recorderRef, mounted,
                 sessionVars, translateVars, enhanceVars, wordVars, audioVars, lastOk>>

\* getUserMedia rejected (App.tsx:458-461)
MicDenied ==
  /\ micPending > 0
  /\ micPending' = micPending - 1
  /\ toasts' = {"micError"}
  /\ lastEvent' = "micDenied"
  /\ UNCHANGED <<isRecording, isProcessingAudio, recorders, recorderRef, mounted,
                 sessionVars, translateVars, enhanceVars, wordVars, audioVars, lastOk>>

\* the recorder's stop event: onstop (App.tsx:407-411), reader.onloadend up to
\* the fetch (412-419)
RecorderOnStop(i) ==
  /\ i \in DOMAIN recorders
  /\ recorders[i] = "stopped"
  /\ recorders' = [recorders EXCEPT ![i] = "processing"]
  /\ isProcessingAudio' = (IF mounted THEN TRUE ELSE isProcessingAudio)
  /\ toasts' = NoToasts
  /\ lastEvent' = "recorderStop"
  /\ UNCHANGED <<isRecording, micPending, recorderRef, mounted,
                 sessionVars, translateVars, enhanceVars, wordVars, audioVars, lastOk>>

\* stream.getTracks().forEach(track => track.stop()) ends recorder i
ReleaseRecorder(i) ==
  /\ recorders' = RemoveAt(recorders, i)
  /\ recorderRef' = IF recorderRef = i THEN 0
                    ELSE IF recorderRef > i THEN recorderRef - 1 ELSE recorderRef

\* variant: the transcription replaces the source and the translation stays
SttOkKeepsTranslation(i, transcription) ==
  LET limited == LimitTranscribed(transcription)
      textToSet == limited.text
  IN
  /\ i \in DOMAIN recorders
  /\ recorders[i] = "processing"
  /\ IF mounted
     THEN /\ sourceText' = textToSet
          /\ sourceWordCount' = limited.count
          /\ translatedText' = translatedText
          /\ isProcessingAudio' = FALSE
          /\ EnhanceCardRender(TRUE)
     ELSE UNCHANGED <<sourceText, sourceWordCount, translatedText, isProcessingAudio,
                      enhanceVars>>
  /\ toasts' = {"speechRecognized"} \cup (IF limited.cut THEN {"wordLimitSpeech"} ELSE NoToasts)
  /\ ReleaseRecorder(i)
  /\ lastEvent' = "sttOk"
  /\ UNCHANGED <<sourceLanguage, targetLanguage, isRecording, micPending, mounted,
                 translateVars, wordVars, audioVars, lastOk>>

\* speech-to-text succeeded (App.tsx:425-439), then finally (449-452)
SttOk(i, transcription) ==
  LET limited == LimitTranscribed(transcription)
      textToSet == limited.text
  IN
  /\ i \in DOMAIN recorders
  /\ recorders[i] = "processing"
  /\ IF mounted
     THEN /\ sourceText' = textToSet
          /\ sourceWordCount' = limited.count
          /\ translatedText' = <<>>
          /\ isProcessingAudio' = FALSE
          /\ EnhanceCardRender(TRUE)
     ELSE UNCHANGED <<sourceText, sourceWordCount, translatedText, isProcessingAudio,
                      enhanceVars>>
  /\ toasts' = {"speechRecognized"} \cup (IF limited.cut THEN {"wordLimitSpeech"} ELSE NoToasts)
  /\ ReleaseRecorder(i)
  /\ lastEvent' = "sttOk"
  /\ UNCHANGED <<sourceLanguage, targetLanguage, isRecording, micPending, mounted,
                 translateVars, wordVars, audioVars, lastOk>>

\* speech-to-text failed (App.tsx:440-448), then finally (449-452)
SttFail(i) ==
  /\ i \in DOMAIN recorders
  /\ recorders[i] = "processing"
  /\ toasts' = {"speechFailed"}
  /\ isProcessingAudio' = (IF mounted THEN FALSE ELSE isProcessingAudio)
  /\ ReleaseRecorder(i)
  /\ lastEvent' = "sttFail"
  /\ UNCHANGED <<sessionVars, isRecording, micPending, mounted, translateVars, enhanceVars,
                 wordVars, audioVars, lastOk>>

\* App is torn down: the cleanup of the mount effect (App.tsx:82-94) stops the
\* recorder of mediaRecorderRef if it is recording, pauses the Audio element
\* and clears the timer of throttleTimeoutRef
Unmount ==
  /\ mounted
  /\ mounted' = FALSE
  /\ IF recorderRef # 0 /\ recorders[recorderRef] = "recording"
     THEN recorders' = [recorders EXCEPT ![recorderRef] = "stopped"]
     ELSE UNCHANGED recorders
  /\ throttleTimers' = IF throttleTimers > 0 THEN throttleTimers - 1 ELSE 0
  /\ toasts' = NoToasts
  /\ lastEvent' = "unmount"
  /\ audioPlayer' = IF audioPlayer.state \in {"starting", "playing"}
                    THEN [audioPlayer EXCEPT !.state = "paused"] ELSE audioPlayer
  /\ UNCHANGED <<sessionVars, isTranslating, isThrottled, trReqs,
                 isRecording, isProcessingAudio, micPending, recorderRef,
                 isLoadingSourceTTS, isLoadingTargetTTS, ttsReqs, pcmSources, playPromises,
                 webAudio, audioSrc, enhanceVars, wordVars, lastOk>>

(***************************************************************************)
(* EnhanceCard (part_002:358-629); it is rendered while translatedText is  *)
(* non-blank (App.tsx:750)                                                 *)
(***************************************************************************)
CardShown == ~IsBlank(translatedText)
\* the block at part_002:560 is rendered
ToolsShown == CardShown /\ enhancementFeaturesEnabled
\* the block at part_002:599 is rendered
ResultShown == ToolsShown /\ processedEnhancedText # Null /\ ~isLoadingEnhancement

\* "Enable Features" checkbox (part_002:531-542) and its effect (418-423)
ToggleEnhancementFeatures ==
  /\ CardShown
  /\ enhancementFeaturesEnabled' = ~enhancementFeaturesEnabled
  /\ IF enhancementFeaturesEnabled
     THEN customInstruction' = <<>> /\ processedEnhancedText' = Null
     ELSE UNCHANGED <<customInstruction, processedEnhancedText>>
  /\ toasts' = NoToasts
  /\ lastEvent' = "toggleFeatures"
  /\ UNCHANGED <<isLoadingEnhancement, generateEnhancementRequestId, enhReqs,
                 sessionVars, translateVars, recordingVars, wordVars, audioVars, lastOk>>

\* instruction textarea (part_002:581-588), disabled while loading
HandleInstructionChange(instruction) ==
  /\ ToolsShown
  /\ ~isLoadingEnhancement
  /\ instruction # customInstruction
  /\ customInstruction' = instruction
  /\ toasts' = NoToasts
  /\ lastEvent' = "instruction"
  /\ UNCHANGED <<enhancementFeaturesEnabled, isLoadingEnhancement, processedEnhancedText,
                 generateEnhancementRequestId, enhReqs,
                 sessionVars, translateVars, recordingVars, wordVars, audioVars, lastOk>>

\* suggestion chip (part_002:567-576) -> handleChipClick (426-428)
HandleChipClick(instruction) ==
  /\ ToolsShown
  /\ customInstruction' = instruction
  /\ toasts' = NoToasts
  /\ lastEvent' = "chip"
  /\ UNCHANGED <<enhancementFeaturesEnabled, isLoadingEnhancement, processedEnhancedText,
                 generateEnhancementRequestId, enhReqs,
                 sessionVars, translateVars, recordingVars, wordVars, audioVars, lastOk>>

\* history: a later request has been issued since r was
Supersede(reqs) == [i \in DOMAIN reqs |-> [reqs[i] EXCEPT !.superseded = TRUE]]

\* "Generate Enhancement" button (part_002:589-592) -> handleGenerateEnhancement
\* up to the await (430-450)
HandleGenerateEnhancement ==
  /\ ToolsShown
  /\ ~(isLoadingEnhancement \/ IsBlank(customInstruction) \/ IsBlank(translatedText))
  /\ generateEnhancementRequestId < MaxToken
  /\ Len(enhReqs) < MaxEnhReqs
  /\ IF ~enhancementFeaturesEnabled \/ IsBlank(translatedText) \/ IsBlank(customInstruction)
     THEN /\ toasts' = {"missingInformation"}
          /\ UNCHANGED enhanceVars
     ELSE /\ isLoadingEnhancement' = TRUE
          /\ processedEnhancedText' = Null
          /\ generateEnhancementRequestId' = generateEnhancementRequestId + 1
          /\ enhReqs' = Append(Supersede(enhReqs),
                                [token |-> generateEnhancementRequestId + 1,
                                 text |-> translatedText,
                                 live |-> TRUE, latest |-> TRUE, superseded |-> FALSE])
          /\ toasts' = NoToasts
          /\ UNCHANGED <<enhancementFeaturesEnabled, customInstruction>>
  /\ lastEvent' = "generate"
  /\ UNCHANGED <<sessionVars, translateVars, recordingVars, wordVars, audioVars, lastOk>>

\* currentRequestId === generateEnhancementRequestIdRef.current, in the closure
\* of the instance that issued r
IsCurrentRequest(r) ==
  IF r.live THEN r.token = generateEnhancementRequestId ELSE r.latest

\* variant: the result is written to the panel without the token comparison,
\* whichever instance issued the request
EnhanceOkUnchecked(i, enhancedText) ==
  /\ i \in DOMAIN enhReqs
  /\ IF CardShown
     THEN processedEnhancedText' = enhancedText /\ isLoadingEnhancement' = FALSE
     ELSE UNCHANGED <<processedEnhancedText, isLoadingEnhancement>>
  /\ enhReqs' = RemoveAt(enhReqs, i)
  /\ toasts' = NoToasts
  /\ lastEvent' = "enhanceOk"
  /\ UNCHANGED <<enhancementFeaturesEnabled, customInstruction, generateEnhancementRequestId,
                 sessionVars, translateVars, recordingVars, wordVars, audioVars, lastOk>>

\* response.ok (part_002:455-459), then finally (472-476); the setters of a
\* discarded instance change nothing
EnhanceOk(i, enhancedText) ==
  /\ i \in DOMAIN enhReqs
  /\ IF enhReqs[i].live /\ IsCurrentRequest(enhReqs[i])
     THEN processedEnhancedText' = enhancedText /\ isLoadingEnhancement' = FALSE
     ELSE UNCHANGED <<processedEnhancedText, isLoadingEnhancement>>
  /\ enhReqs' = RemoveAt(enhReqs, i)
  /\ toasts' = NoToasts
  /\ lastEvent' = "enhanceOk"
  /\ UNCHANGED <<enhancementFeaturesEnabled, customInstruction, generateEnhancementRequestId,
                 sessionVars, translateVars, recordingVars, wordVars, audioVars, lastOk>>

\* fetch rejected or !response.ok: catch (part_002:460-471), then finally
EnhanceFail(i) ==
  /\ i \in DOMAIN enhReqs
  /\ IF enhReqs[i].live /\ IsCurrentRequest(enhReqs[i])
     THEN processedEnhancedText' = enhReqs[i].text /\ isLoadingEnhancement' = FALSE
     ELSE UNCHANGED <<processedEnhancedText, isLoadingEnhancement>>
  /\ toasts' = IF IsCurrentRequest(enhReqs[i]) THEN {"enhancementError"} ELSE NoToasts
  /\ enhReqs' = RemoveAt(enhReqs, i)
  /\ lastEvent' = "enhanceFail"
  /\ UNCHANGED <<enhancementFeaturesEnabled, customInstruction, generateEnhancementRequestId,
                 sessionVars, translateVars, recordingVars, wordVars, audioVars, lastOk>>

\* "Apply to Main" (part_002:606) -> handleApplyToMain (490-495) ->
\* handleApplyEnhancedText (App.tsx:608-610)
HandleApplyToMain ==
  /\ ResultShown
  /\ translatedText' = processedEnhancedText
  /\ toasts' = {"applied"}
  /\ EnhanceCardRender(FALSE)
  /\ lastEvent' = "applyEnhanced"
  /\ UNCHANGED <<sourceText, sourceLanguage, targetLanguage, sourceWordCount,
                 translateVars, recordingVars, wordVars, audioVars, lastOk>>

\* "Clear" of the enhanced version (part_002:612)
ClearEnhanced ==
  /\ ResultShown
  /\ processedEnhancedText' = Null
  /\ toasts' = NoToasts
  /\ lastEvent' = "clearEnhanced"
  /\ UNCHANGED <<enhancementFeaturesEnabled, customInstruction, isLoadingEnhancement,
                 generateEnhancementRequestId, enhReqs,
                 sessionVars, translateVars, recordingVars, wordVars, audioVars, lastOk>>

(***************************************************************************)
(* Word definition (App.tsx:522-572, part_002:116-185, wordDetailsSlice)   *)
(***************************************************************************)
Punctuation == {"."}
Separators == WhiteSpace \cup Punctuation

RECURSIVE SkipSeparators(_)
SkipSeparators(s) ==
  IF s = <<>> THEN s
  ELSE IF Head(s) \in Separators THEN SkipSeparators(Tail(s)) ELSE s

\* text.split(/([\s.,!?;:"...]+)/g): the parts that are words (part_002:120-123)
RECURSIVE WordParts(_, _)
WordParts(s, cur) ==
  IF s = <<>> THEN (IF cur = <<>> THEN {} ELSE {cur})
  ELSE IF Head(s) \in Separators
  THEN (IF cur = <<>> THEN {} ELSE {cur}) \cup WordParts(SkipSeparators(s), <<>>)
  ELSE WordParts(Tail(s), Append(cur, Head(s)))

ClickableWords(text) == WordParts(text, <<>>)

\* word.replace(/[.,!?;:"...]/g, "")
RECURSIVE RemovePunctuation(_)
RemovePunctuation(s) ==
  IF s = <<>> THEN s
  ELSE IF Head(s) \in Punctuation THEN RemovePunctuation(Tail(s))
  ELSE <<Head(s)>> \o RemovePunctuation(Tail(s))

LowerChar(c) == IF c = "X" THEN "x" ELSE IF c = "Y" THEN "y" ELSE c
ToLowerCase(s) == [i \in DOMAIN s |-> LowerChar(s[i])]

\* cleanedWord (App.tsx:524)
CleanWord(word) == ToLowerCase(Trim(RemovePunctuation(word)))
\* cacheKey (App.tsx:526)
CacheKey(cleanedWord, language) == <<cleanedWord, language>>

CacheHas(key) == \E e \in wordDetailsCache : e.key = key
CacheGet(key) == (CHOOSE e \in wordDetailsCache : e.key = key).details

\* reducer setWordDetails: state.cache[key] = details (wordDetailsSlice.ts:25-30)
SetWordDetails(cache, key, details) ==
  {e \in cache : e.key # key} \cup {[key |-> key, details |-> details]}

\* the record of the catch block (App.tsx:560-567)
FailureRecord(cleanedWord) ==
  [definedWord |-> cleanedWord, meaning |-> "couldNotFetch",
   synonyms |-> <<>>, antonyms |-> <<>>]

\* a record the server may answer with
ServerRecord(cleanedWord, meaning) ==
  [definedWord |-> cleanedWord, meaning |-> meaning,
   synonyms |-> <<"syn">>, antonyms |-> <<>>]

\* Popover opened on a word of the translated panel (part_002:129-131) ->
\* handleWordDefinition up to the await (App.tsx:522-541)
HandleWordDefinition(word) ==
  LET language == targetLanguage
      cleanedWord == CleanWord(word)
      cacheKey == CacheKey(cleanedWord, language)
  IN
  /\ word \in ClickableWords(translatedText)
  /\ IF IsBlank(word) \/ cleanedWord = <<>>
     THEN UNCHANGED wordVars
     ELSE /\ activeWordForDefinition' = word
          /\ IF CacheHas(cacheKey)
             THEN /\ currentWordDetails' = CacheGet(cacheKey)
                  /\ isWordDetailLoading' = FALSE
                  /\ UNCHANGED wordReqs
             ELSE /\ Len(wordReqs) < MaxWordReqs
                  /\ currentWordDetails' = NoDetails
                  /\ isWordDetailLoading' = TRUE
                  /\ wordReqs' = Append(wordReqs, [word |-> word, cleanedWord |-> cleanedWord,
                                                   language |-> language, cacheKey |-> cacheKey])
          /\ UNCHANGED wordDetailsCache
  /\ toasts' = NoToasts
  /\ lastEvent' = "wordClick"
  /\ UNCHANGED <<sessionVars, translateVars, recordingVars, enhanceVars, audioVars, lastOk>>

\* response.ok (App.tsx:546-551), then finally (569-571)
WordOk(i, meaning) ==
  LET result == ServerRecord(wordReqs[i].cleanedWord, meaning) IN
  /\ i \in DOMAIN wordReqs
  /\ currentWordDetails' = result
  /\ wordDetailsCache' = SetWordDetails(wordDetailsCache, wordReqs[i].cacheKey, result)
  /\ isWordDetailLoading' = FALSE
  /\ wordReqs' = RemoveAt(wordReqs, i)
  /\ toasts' = NoToasts
  /\ lastEvent' = "wordOk"
  /\ UNCHANGED <<activeWordForDefinition, sessionVars, translateVars, recordingVars,
                 enhanceVars, audioVars, lastOk>>

\* variant: the catch block reports the failure and leaves the slot empty
WordFailEmptySlot(i) ==
  /\ i \in DOMAIN wordReqs
  /\ currentWordDetails' = NoDetails
  /\ isWordDetailLoading' = FALSE
  /\ wordReqs' = RemoveAt(wordReqs, i)
  /\ toasts' = {"definitionError"}
  /\ lastEvent' = "wordFail"
  /\ UNCHANGED <<activeWordForDefinition, wordDetailsCache, sessionVars, translateVars,
                 recordingVars, enhanceVars, audioVars, lastOk>>

\* variant: a failed lookup is sent again
WordFailRetries(i) ==
  /\ i \in DOMAIN wordReqs
  /\ currentWordDetails' = FailureRecord(wordReqs[i].cleanedWord)
  /\ isWordDetailLoading' = FALSE
  /\ wordReqs' = Append(RemoveAt(wordReqs, i), wordReqs[i])
  /\ toasts' = {"definitionError"}
  /\ lastEvent' = "wordFail"
  /\ UNCHANGED <<activeWordForDefinition, wordDetailsCache, sessionVars, translateVars,
                 recordingVars, enhanceVars, audioVars, lastOk>>

\* fetch rejected or !response.ok: catch (App.tsx:552-568), then finally
WordFail(i) ==
  /\ i \in DOMAIN wordReqs
  /\ currentWordDetails' = FailureRecord(wordReqs[i].cleanedWord)
  /\ isWordDetailLoading' = FALSE
  /\ wordReqs' = RemoveAt(wordReqs, i)
  /\ toasts' = {"definitionError"}
  /\ lastEvent' = "wordFail"
  /\ UNCHANGED <<activeWordForDefinition, wordDetailsCache, sessionVars, translateVars,
                 recordingVars, enhanceVars, audioVars, lastOk>>

(***************************************************************************)
(* Text-to-speech and playback (App.tsx:188-395).  An audio source is      *)
(* [kind, bytes]: kind "invalid" is a missing URI or one that is neither   *)
(* data:audio nor blob:, "l16NoBase64" a data:audio/L16 URI without a      *)
(* base64 part, "l16BadBase64" one whose base64 part atob rejects, "l16"   *)
(* one that decodes to bytes, "url" any other data:audio or blob: URI.     *)
(***************************************************************************)
Panels == {"source", "target"}

\* a | b on non-negative integers
RECURSIVE BitOr(_, _)
BitOr(a, b) ==
  IF a = 0 THEN b
  ELSE IF b = 0 THEN a
  ELSE (IF a % 2 = 1 \/ b % 2 = 1 THEN 1 ELSE 0) + 2 * BitOr(a \div 2, b \div 2)

\* a << n on 32-bit integers, for the results below 2^31 (a byte by 8 bits)
ShiftLeft(a, n) == a * 2^n

\* variant: the sample is not reinterpreted as signed
SignedSampleUnsigned(bytes, i) ==
  BitOr(ShiftLeft(bytes[i * 2 + 2], 8), bytes[i * 2 + 1])

\* sample and signedSample of iteration i, from 0 (App.tsx:246-248); bytes is
\* indexed from 1 here
SignedSample(bytes, i) ==
  LET sample == BitOr(ShiftLeft(bytes[i * 2 + 2], 8), bytes[i * 2 + 1])
  IN IF sample > 32767 THEN sample - 65536 ELSE sample

\* channelData after the loop (App.tsx:242-251), each entry given as its
\* numerator over 32768.0
ChannelData(bytes) ==
  LET numSamples == Len(bytes) \div 2
  IN [k \in 1..numSamples |-> SignedSample(bytes, k - 1)]

\* isLoadingSetter(v) / onLoadingChange(v) of a panel; the setters of a torn
\* down App change nothing
SetLoading(panel, v) ==
  /\ isLoadingSourceTTS' = (IF mounted /\ panel = "source" THEN v ELSE isLoadingSourceTTS)
  /\ isLoadingTargetTTS' = (IF mounted /\ panel = "target" THEN v ELSE isLoadingTargetTTS)

IsLoadingSpeak(panel) == IF panel = "source" THEN isLoadingSourceTTS ELSE isLoadingTargetTTS
PanelText(panel) == IF panel = "source" THEN sourceText ELSE translatedText

\* speak button (part_002:262-264) -> onSpeak (App.tsx:662, 729) ->
\* handleTextToSpeech up to the await (App.tsx:342-356)
HandleTextToSpeech(panel) ==
  /\ mounted
  /\ PanelText(panel) # <<>>
  /\ ~IsLoadingSpeak(panel)
  /\ panel = "source" => ~isProcessingAudio
  /\ panel = "target" => ~isTranslating
  /\ IF IsBlank(PanelText(panel))
     THEN SetLoading(panel, FALSE) /\ UNCHANGED ttsReqs
     ELSE /\ Len(ttsReqs) < MaxTts
          /\ SetLoading(panel, TRUE)
          /\ ttsReqs' = Append(ttsReqs, [panel |-> panel])
  /\ toasts' = NoToasts
  /\ lastEvent' = "speak"
  /\ UNCHANGED <<pcmSources, audioPlayer, playPromises, webAudio, audioSrc,
                 sessionVars, translateVars, recordingVars, enhanceVars, wordVars, lastOk>>

\* !response.ok (App.tsx:358-364) or the fetch rejected: catch (376-394)
TtsFail(i) ==
  /\ i \in DOMAIN ttsReqs
  /\ SetLoading(ttsReqs[i].panel, FALSE)
  /\ ttsReqs' = RemoveAt(ttsReqs, i)
  /\ toasts' = {"ttsFailed"}
  /\ lastEvent' = "ttsFail"
  /\ UNCHANGED <<pcmSources, audioPlayer, playPromises, webAudio, audioSrc,
                 sessionVars, translateVars, recordingVars, enhanceVars, wordVars, lastOk>>

\* playRawPCM (App.tsx:220-272) stops before source.start(): no base64 part,
\* no Web Audio API, atob throws, odd length, or createBuffer throws for a
\* buffer of no samples
PcmRefused(audio) ==
  \/ audio.kind \in {"l16NoBase64", "l16BadBase64"}
  \/ ~webAudio
  \/ Len(audio.bytes) % 2 # 0
  \/ Len(audio.bytes) \div 2 = 0

\* the notice of the refusing branch
PcmNotice(audio) ==
  IF audio.kind = "l16NoBase64" THEN "pcmError"
  ELSE IF ~webAudio THEN "playbackError"
  ELSE "pcmError"

\* variant: the length check is left out, the trailing byte is dropped
PlayAudioNoLengthCheck(audio, panel) ==
  IF audio.kind \in {"l16NoBase64", "l16BadBase64", "l16"}
  THEN /\ IF audio.kind # "l16" \/ ~webAudio \/ Len(audio.bytes) \div 2 = 0
          THEN /\ SetLoading(panel, FALSE)
               /\ toasts' = {PcmNotice(audio)}
               /\ UNCHANGED pcmSources
          ELSE /\ Len(pcmSources) < MaxTts
               /\ SetLoading(panel, TRUE)
               /\ toasts' = NoToasts
               /\ pcmSources' = Append(pcmSources, [panel |-> panel,
                                                     channelData |-> ChannelData(audio.bytes)])
       /\ UNCHANGED <<audioPlayer, playPromises>>
  ELSE IF mounted
  THEN /\ Len(playPromises) < MaxTts
       /\ SetLoading(panel, TRUE)
       /\ audioPlayer' = [src |-> audio, state |-> "starting", owner |-> panel]
       /\ playPromises' = Append(playPromises, panel)
       /\ toasts' = NoToasts
       /\ UNCHANGED pcmSources
  ELSE /\ SetLoading(panel, FALSE)
       /\ toasts' = NoToasts
       /\ UNCHANGED <<pcmSources, audioPlayer, playPromises>>

\* playAudio(audioSrc, onLoadingChange) for a non-empty audioSrc
\* (App.tsx:188-340): raw PCM is decoded and started on a new AudioContext,
\* which every refusing branch that created it closes; any other source is
\* given to the shared Audio element, whose handlers then belong to this call
PlayAudio(audio, panel) ==
  IF audio.kind \in {"l16NoBase64", "l16BadBase64", "l16"}
  THEN /\ IF PcmRefused(audio)
          THEN /\ SetLoading(panel, FALSE)
               /\ toasts' = {PcmNotice(audio)}
               /\ UNCHANGED pcmSources
          ELSE /\ Len(pcmSources) < MaxTts
               /\ SetLoading(panel, TRUE)
               /\ toasts' = NoToasts
               /\ pcmSources' = Append(pcmSources, [panel |-> panel,
                                                     channelData |-> ChannelData(audio.bytes)])
       /\ UNCHANGED <<audioPlayer, playPromises>>
  ELSE IF mounted
  THEN /\ Len(playPromises) < MaxTts
       /\ SetLoading(panel, TRUE)
       /\ audioPlayer' = [src |-> audio, state |-> "starting", owner |-> panel]
       /\ playPromises' = Append(playPromises, panel)
       /\ toasts' = NoToasts
       /\ UNCHANGED pcmSources
  ELSE /\ SetLoading(panel, FALSE)
       /\ toasts' = NoToasts
       /\ UNCHANGED <<pcmSources, audioPlayer, playPromises>>

\* response.ok: the URI is validated (App.tsx:366-373) and played (374)
TtsOk(i, audio) ==
  /\ i \in DOMAIN ttsReqs
  /\ ttsReqs' = RemoveAt(ttsReqs, i)
  /\ audioSrc' = audio
  /\ IF audio.kind = "invalid"
     THEN /\ SetLoading(ttsReqs[i].panel, FALSE)
          /\ toasts' = {"ttsFailed"}
          /\ UNCHANGED <<pcmSources, audioPlayer, playPromises>>
     ELSE PlayAudio(audio, ttsReqs[i].panel)
  /\ lastEvent' = "ttsOk"
  /\ UNCHANGED <<webAudio, sessionVars, translateVars, recordingVars, enhanceVars,
                 wordVars, lastOk>>

\* source.onended of a raw PCM source (App.tsx:257-260): its context is closed
PcmEnded(i) ==
  /\ i \in DOMAIN pcmSources
  /\ SetLoading(pcmSources[i].panel, FALSE)
  /\ pcmSources' = RemoveAt(pcmSources, i)
  /\ toasts' = NoToasts
  /\ lastEvent' = "pcmEnded"
  /\ UNCHANGED <<ttsReqs, audioPlayer, playPromises, webAudio, audioSrc,
                 sessionVars, translateVars, recordingVars, enhanceVars, wordVars, lastOk>>

\* the element starts playing: onplaying (App.tsx:311-313); the promise of
\* the last play() call is fulfilled (297-299). The promises of the calls it
\* superseded were rejected when the element was paused or reloaded, before
\* any event of the new source
PlayerPlaying ==
  /\ audioPlayer.state = "starting"
  /\ Len(playPromises) <= 1
  /\ audioPlayer' = [audioPlayer EXCEPT !.state = "playing"]
  /\ playPromises' = SubSeq(playPromises, 1, Len(playPromises) - 1)
  /\ SetLoading(audioPlayer.owner, FALSE)
  /\ toasts' = NoToasts
  /\ lastEvent' = "playing"
  /\ UNCHANGED <<ttsReqs, pcmSources, webAudio, audioSrc,
                 sessionVars, translateVars, recordingVars, enhanceVars, wordVars, lastOk>>

\* onended (App.tsx:308-310)
PlayerEnded ==
  /\ audioPlayer.state = "playing"
  /\ audioPlayer' = [audioPlayer EXCEPT !.state = "ended"]
  /\ SetLoading(audioPlayer.owner, FALSE)
  /\ toasts' = NoToasts
  /\ lastEvent' = "ended"
  /\ UNCHANGED <<ttsReqs, pcmSources, playPromises, webAudio, audioSrc,
                 sessionVars, translateVars, recordingVars, enhanceVars, wordVars, lastOk>>

\* onerror (App.tsx:314-333)
PlayerError ==
  /\ audioPlayer.state = "starting"
  /\ audioPlayer' = [audioPlayer EXCEPT !.state = "error"]
  /\ SetLoading(audioPlayer.owner, FALSE)
  /\ toasts' = {"audioElementError"}
  /\ lastEvent' = "audioError"
  /\ UNCHANGED <<ttsReqs, pcmSources, playPromises, webAudio, audioSrc,
                 sessionVars, translateVars, recordingVars, enhanceVars, wordVars, lastOk>>

\* variant: the catch of play() shows the notice and leaves the flag
PlayRejectedKeepsLoading(i) ==
  /\ i \in DOMAIN playPromises
  /\ audioPlayer.state \in {"error", "paused"} \/ i < Len(playPromises)
  /\ playPromises' = RemoveAt(playPromises, i)
  /\ toasts' = {"playbackError"}
  /\ lastEvent' = "playRejected"
  /\ UNCHANGED <<isLoadingSourceTTS, isLoadingTargetTTS, ttsReqs, pcmSources, audioPlayer,
                 webAudio, audioSrc,
                 sessionVars, translateVars, recordingVars, enhanceVars, wordVars, lastOk>>

\* a play() promise is rejected: the element failed or was paused, or a
\* later playAudio call paused or reloaded it; catch (App.tsx:300-307)
PlayRejected(i) ==
  /\ i \in DOMAIN playPromises
  /\ audioPlayer.state \in {"error", "paused"} \/ i < Len(playPromises)
  /\ SetLoading(playPromises[i], FALSE)
  /\ playPromises' = RemoveAt(playPromises, i)
  /\ toasts' = {"playbackError"}
  /\ lastEvent' = "playRejected"
  /\ UNCHANGED <<ttsReqs, pcmSources, audioPlayer, webAudio, audioSrc,
                 sessionVars, translateVars, recordingVars, enhanceVars, wordVars, lastOk>>

(***************************************************************************)
(* Inputs: what the user may type and what the services may answer         *)
(***************************************************************************)
TypedTexts ==
  { <<>>, <<Space>>, <<"a">>, <<"a", Space, Space, "b">>,
    <<"b", Newline, Space, "a", Space, "b">> }
\* edits that replace part of a text already at the limit without making it
\* longer
PastedTexts == { <<"a", "a", "a", Space, "b">>, <<"a", Space, "a", Space, "b">> }
TranslationResults == { <<"x">>, <<"X", Space, Newline, "y", ".", Space, "x">> }
Transcriptions == { <<"b">>, <<Space, "b", Space, Space, "b", Newline, "a">> }
EnhancedTexts == { <<"e">> }
Instructions == { <<>>, <<"i">> }
Meanings == {"m1", "m2"}
Bytes == 0..255
L16(bytes) == [kind |-> "l16", bytes |-> bytes]
\* every payload of one sample
L16Samples == {L16(<<lo, hi>>) : lo \in Bytes, hi \in Bytes}
\* what the text-to-speech service may answer with
TtsAudios ==
  { [kind |-> "invalid", bytes |-> <<>>], [kind |-> "l16NoBase64", bytes |-> <<>>],
    [kind |-> "l16BadBase64", bytes |-> <<>>], [kind |-> "url", bytes |-> <<>>],
    L16(<<>>), L16(<<0, 128, 255>>), L16(<<0, 128, 255, 127>>) }

(***************************************************************************)
(* Initial state (App.tsx:48-76, part_002:367-376, wordDetailsSlice.ts:17) *)
(***************************************************************************)
\* no audio source yet
NoAudio == [kind |-> "none", bytes |-> <<>>]
\* audioPlayerRef.current = new Audio() (App.tsx:79)
NewAudio == [src |-> NoAudio, state |-> "empty", owner |-> "none"]

AudioInit ==
  /\ isLoadingSourceTTS = FALSE
  /\ isLoadingTargetTTS = FALSE
  /\ ttsReqs = <<>>
  /\ pcmSources = <<>>
  /\ audioPlayer = NewAudio
  /\ playPromises = <<>>
  /\ webAudio = TRUE
  /\ audioSrc = NoAudio

Init ==
  /\ sourceText = <<>>
  /\ translatedText = <<>>
  /\ sourceLanguage = "en"
  /\ targetLanguage = "vi"
  /\ sourceWordCount = 0
  /\ isTranslating = FALSE
  /\ isThrottled = FALSE
  /\ trReqs = <<>>
  /\ throttleTimers = 0
  /\ isRecording = FALSE
  /\ isProcessingAudio = FALSE
  /\ micPending = 0
  /\ recorders = <<>>
  /\ recorderRef = 0
  /\ mounted = TRUE
  /\ enhancementFeaturesEnabled = FALSE
  /\ customInstruction = <<>>
  /\ isLoadingEnhancement = FALSE
  /\ processedEnhancedText = Null
  /\ generateEnhancementRequestId = 0
  /\ enhReqs = <<>>
  /\ activeWordForDefinition = Null
  /\ currentWordDetails = NoDetails
  /\ isWordDetailLoading = FALSE
  /\ wordDetailsCache = {}
  /\ wordReqs = <<>>
  /\ AudioInit
  /\ lastEvent = "mount"
  /\ toasts = NoToasts
  /\ lastOk = [kept |-> FALSE, last |-> <<>>]

\* the same state, with the history of successful translations kept
InitObserved ==
  /\ sourceText = <<>>
  /\ translatedText = <<>>
  /\ sourceLanguage = "en"
  /\ targetLanguage = "vi"
  /\ sourceWordCount = 0
  /\ isTranslating = FALSE
  /\ isThrottled = FALSE
  /\ trReqs = <<>>
  /\ throttleTimers = 0
  /\ isRecording = FALSE
  /\ isProcessingAudio = FALSE
  /\ micPending = 0
  /\ recorders = <<>>
  /\ recorderRef = 0
  /\ mounted = TRUE
  /\ enhancementFeaturesEnabled = FALSE
  /\ customInstruction = <<>>
  /\ isLoadingEnhancement = FALSE
  /\ processedEnhancedText = Null
  /\ generateEnhancementRequestId = 0
  /\ enhReqs = <<>>
  /\ activeWordForDefinition = Null
  /\ currentWordDetails = NoDetails
  /\ isWordDetailLoading = FALSE
  /\ wordDetailsCache = {}
  /\ wordReqs = <<>>
  /\ AudioInit
  /\ lastEvent = "mount"
  /\ toasts = NoToasts
  /\ lastOk = [kept |-> TRUE, last |-> <<>>]

(***************************************************************************)
(* Specifications                                                          *)
(***************************************************************************)
SessionNext ==
  \/ \E t \in TypedTexts : HandleSourceTextChange(t)
  \/ OnClear
  \/ ClickTranslate
  \/ HandleKeyDown
  \/ \E l \in Languages : HandleSourceLanguageChange(l)
  \/ \E l \in Languages : HandleTargetLanguageChange(l)
  \/ HandleSwapLanguages
  \/ \E i \in 1..MaxPending, r \in TranslationResults : TranslateOk(i, r)
  \/ \E i \in 1..MaxPending : TranslateFail(i)
  \/ ThrottleTimeout

RecordingNext ==
  \/ HandleToggleRecording
  \/ MicGranted
  \/ MicDenied
  \/ \E i \in 1..MaxMic : RecorderOnStop(i)
  \/ \E i \in 1..MaxMic, t \in Transcriptions : SttOk(i, t)
  \/ \E i \in 1..MaxMic : SttFail(i)

EnhanceNext ==
  \/ ToggleEnhancementFeatures
  \/ \E c \in Instructions : HandleInstructionChange(c)
  \/ HandleChipClick(<<"i">>)
  \/ HandleGenerateEnhancement
  \/ \E i \in 1..MaxEnhReqs, e \in EnhancedTexts : EnhanceOk(i, e)
  \/ \E i \in 1..MaxEnhReqs : EnhanceFail(i)
  \/ HandleApplyToMain
  \/ ClearEnhanced

WordNext ==
  \/ \E w \in ClickableWords(translatedText) : HandleWordDefinition(w)
  \/ \E i \in 1..MaxWordReqs, m \in Meanings : WordOk(i, m)
  \/ \E i \in 1..MaxWordReqs : WordFail(i)

Next == SessionNext \/ RecordingNext

Spec == Init /\ [][Next]_vars

\* the translation session alone, with the history of successful translations
SpecObserved == InitObserved /\ [][SessionNext]_vars

\* the EnhanceCard, with the App events that mount, remount and unmount it
\* the session with edits that keep the length of the text
EditNext ==
  \/ SessionNext
  \/ \E t \in PastedTexts : HandleSourceTextChange(t)

SpecEdit == Init /\ [][EditNext]_vars

\* the session, where a cool-down timer that was started fires
SpecThrottle == Init /\ [][SessionNext]_vars /\ WF_vars(ThrottleTimeout)

EnhanceAppNext ==
  \/ HandleSourceTextChange(<<"a">>)
  \/ OnClear
  \/ \E l \in Languages : HandleSourceLanguageChange(l)
  \/ ClickTranslate
  \/ \E i \in 1..MaxPending : TranslateOk(i, <<"x">>)
  \/ \E i \in 1..MaxPending : TranslateFail(i)
  \/ ThrottleTimeout

SpecEnhance == Init /\ [][EnhanceAppNext \/ EnhanceNext]_vars

\* word definitions, with the App events that fill the translated panel
WordAppNext ==
  \/ HandleSourceTextChange(<<"a">>)
  \/ HandleKeyDown
  \/ \E l \in Languages : HandleTargetLanguageChange(l)
  \/ \E i \in 1..MaxPending, r \in TranslationResults : TranslateOk(i, r)
  \/ ThrottleTimeout

SpecWords == Init /\ [][WordAppNext \/ WordNext]_vars

\* the same state, in a browser with or without the Web Audio API
InitAudio ==
  /\ sourceText = <<>>
  /\ translatedText = <<>>
  /\ sourceLanguage = "en"
  /\ targetLanguage = "vi"
  /\ sourceWordCount = 0
  /\ isTranslating = FALSE
  /\ isThrottled = FALSE
  /\ trReqs = <<>>
  /\ throttleTimers = 0
  /\ isRecording = FALSE
  /\ isProcessingAudio = FALSE
  /\ micPending = 0
  /\ recorders = <<>>
  /\ recorderRef = 0
  /\ mounted = TRUE
  /\ enhancementFeaturesEnabled = FALSE
  /\ customInstruction = <<>>
  /\ isLoadingEnhancement = FALSE
  /\ processedEnhancedText = Null
  /\ generateEnhancementRequestId = 0
  /\ enhReqs = <<>>
  /\ activeWordForDefinition = Null
  /\ currentWordDetails = NoDetails
  /\ isWordDetailLoading = FALSE
  /\ wordDetailsCache = {}
  /\ wordReqs = <<>>
  /\ isLoadingSourceTTS = FALSE
  /\ isLoadingTargetTTS = FALSE
  /\ ttsReqs = <<>>
  /\ pcmSources = <<>>
  /\ audioPlayer = NewAudio
  /\ playPromises = <<>>
  /\ webAudio \in BOOLEAN
  /\ audioSrc = NoAudio
  /\ lastEvent = "mount"
  /\ toasts = NoToasts
  /\ lastOk = [kept |-> FALSE, last |-> <<>>]

\* "a" was typed and the speak button of the source panel pressed: its
\* text-to-speech request is in flight
InitPcm ==
  /\ sourceText = <<"a">>
  /\ translatedText = <<>>
  /\ sourceLanguage = "en"
  /\ targetLanguage = "vi"
  /\ sourceWordCount = 1
  /\ isTranslating = FALSE
  /\ isThrottled = FALSE
  /\ trReqs = <<>>
  /\ throttleTimers = 0
  /\ isRecording = FALSE
  /\ isProcessingAudio = FALSE
  /\ micPending = 0
  /\ recorders = <<>>
  /\ recorderRef = 0
  /\ mounted = TRUE
  /\ enhancementFeaturesEnabled = FALSE
  /\ customInstruction = <<>>
  /\ isLoadingEnhancement = FALSE
  /\ processedEnhancedText = Null
  /\ generateEnhancementRequestId = 0
  /\ enhReqs = <<>>
  /\ activeWordForDefinition = Null
  /\ currentWordDetails = NoDetails
  /\ isWordDetailLoading = FALSE
  /\ wordDetailsCache = {}
  /\ wordReqs = <<>>
  /\ isLoadingSourceTTS = TRUE
  /\ isLoadingTargetTTS = FALSE
  /\ ttsReqs = <<[panel |-> "source"]>>
  /\ pcmSources = <<>>
  /\ audioPlayer = NewAudio
  /\ playPromises = <<>>
  /\ webAudio = TRUE
  /\ audioSrc = NoAudio
  /\ lastEvent = "speak"
  /\ toasts = NoToasts
  /\ lastOk = [kept |-> FALSE, last |-> <<>>]

AudioNext ==
  \/ \E panel \in Panels : HandleTextToSpeech(panel)
  \/ \E i \in 1..MaxTts : TtsFail(i)
  \/ \E i \in 1..MaxTts, audio \in TtsAudios : TtsOk(i, audio)
  \/ \E i \in 1..MaxTts : PcmEnded(i)
  \/ PlayerPlaying
  \/ PlayerEnded
  \/ PlayerError
  \/ \E i \in 1..MaxTts : PlayRejected(i)

\* text-to-speech and playback, with the App events that fill the two panels
AudioAppNext ==
  \/ HandleSourceTextChange(<<"a">>)
  \/ HandleTargetLanguageChange("en")

SpecAudio == InitAudio /\ [][AudioAppNext \/ AudioNext]_vars

\* text-to-speech on one-word and whitespace-only panels. Every request is
\* answered or fails, every started raw PCM source ends, every play() promise
\* is settled and the shared player leaves its start by playing or failing
SpeakNext ==
  \/ AudioNext
  \/ \E t \in {<<"a">>, <<Space>>} : HandleSourceTextChange(t)
  \/ HandleTargetLanguageChange("en")

SpeakFairness ==
  /\ WF_vars(TtsFail(1) \/ \E audio \in TtsAudios : TtsOk(1, audio))
  /\ WF_vars(PcmEnded(1))
  /\ WF_vars(PlayerPlaying \/ PlayerError)
  /\ WF_vars(PlayRejected(1))

SpecSpeak == InitAudio /\ [][SpeakNext]_vars /\ SpeakFairness

\* the raw PCM decoder on every payload of one sample and on the other payloads
PcmNext ==
  \/ ttsReqs # <<>> /\ \E audio \in TtsAudios \cup L16Samples : TtsOk(1, audio)
  \/ PcmEnded(1)

SpecPcm == InitPcm /\ [][PcmNext]_vars

\* the five request streams together: each with the user action that issues
\* its request and the request's failure
RequestsNext ==
  \/ HandleSourceTextChange(<<"a">>)
  \/ \E l \in Languages : HandleSourceLanguageChange(l)
  \/ \E i \in 1..MaxPending : TranslateFail(i)
  \/ ThrottleTimeout
  \/ ToggleEnhancementFeatures
  \/ HandleChipClick(<<"i">>)
  \/ HandleGenerateEnhancement
  \/ \E i \in 1..MaxEnhReqs : EnhanceFail(i)
  \/ HandleTextToSpeech("target")
  \/ \E i \in 1..MaxTts : TtsFail(i)
  \/ HandleToggleRecording
  \/ MicGranted
  \/ \E i \in 1..MaxMic : RecorderOnStop(i)
  \/ \E i \in 1..MaxMic : SttFail(i)
  \/ \E w \in ClickableWords(translatedText) : HandleWordDefinition(w)
  \/ \E i \in 1..MaxWordReqs : WordFail(i)

SpecRequests == Init /\ [][RequestsNext]_vars

\* the recording lifecycle, with the failure to create the recorder and the
\* teardown of App
RecordingLifeNext ==
  \/ RecordingNext
  \/ MicGrantedRecorderFails
  \/ Unmount

SpecRecording == Init /\ [][RecordingLifeNext]_vars

\* speech input while a translation and its enhancement panel are on screen
SpeechAppNext ==
  \/ HandleSourceTextChange(<<"a">>)
  \/ HandleSourceLanguageChange("vi")
  \/ ToggleEnhancementFeatures
  \/ HandleChipClick(<<"i">>)
  \/ HandleGenerateEnhancement
  \/ \E i \in 1..MaxEnhReqs, e \in EnhancedTexts : EnhanceOk(i, e)

SpecSpeech == Init /\ [][SpeechAppNext \/ RecordingNext]_vars

(***************************************************************************)
(* Reference definitions for the claims, on character positions            *)
(***************************************************************************)
WordStarts(t) ==
  {i \in 1..Len(t) : t[i] \notin WhiteSpace /\ (i = 1 \/ t[i - 1] \in WhiteSpace)}
WordEnds(t) ==
  {i \in 1..Len(t) : t[i] \notin WhiteSpace /\ (i = Len(t) \/ t[i + 1] \in WhiteSpace)}
WordCount(t) == Cardinality(WordStarts(t))
\* the k-th smallest member of a set of positions
Nth(S, k) == CHOOSE i \in S : Cardinality({j \in S : j < i}) = k - 1
NthWord(t, k) == SubSeq(t, Nth(WordStarts(t), k), Nth(WordEnds(t), k))

RECURSIVE FirstWordsFrom(_, _, _)
FirstWordsFrom(t, k, n) ==
  IF k = n THEN NthWord(t, k)
  ELSE NthWord(t, k) \o <<Space>> \o FirstWordsFrom(t, k + 1, n)

\* the text the source panel is to hold for an entering text t
ExpectedSource(t) ==
  IF WordCount(t) > WORD_LIMIT THEN FirstWordsFrom(t, 1, WORD_LIMIT) ELSE t

\* the signed 16-bit integer that is congruent to u modulo 2^16
Signed16(u) == ((u + 32768) % 65536) - 32768

\* the requests in flight, over the five streams
RequestsInFlight ==
  Len(trReqs) + Len(enhReqs) + Len(ttsReqs) + Len(wordReqs)
    + Cardinality({i \in DOMAIN recorders : recorders[i] = "processing"})
\* steps that are a request's response
ResponseEvents ==
  {"translateOk", "translateFail", "enhanceOk", "enhanceFail", "ttsOk", "ttsFail",
   "sttOk", "sttFail", "wordOk", "wordFail"}
\* steps of the user that may send a request; the speech-to-text request is
\* sent when the recorder that the user stopped delivers its stop event
RequestEvents ==
  {"translateButton", "ctrlEnter", "sourceLanguage", "targetLanguage", "swap",
   "generate", "speak", "wordClick", "recorderStop"}

TranslateTriggers == {"translateButton", "ctrlEnter", "sourceLanguage", "targetLanguage", "swap"}
RequestFor(text, src, tgt) == [text |-> text, sourceLanguage |-> src, targetLanguage |-> tgt]

(***************************************************************************)
(* Claims                                                                  *)
(***************************************************************************)
\* C1: in every reachable state translatedText is empty, or equal to
\* sourceText, or the result of the last successful translation request whose
\* (text, sourceLanguage, targetLanguage) are the current ones.
C1_TranslatedTextProvenance ==
  \/ translatedText = <<>>
  \/ translatedText = sourceText
  \/ /\ lastOk.last # <<>>
     /\ lastOk.last[1].text = sourceText
     /\ lastOk.last[1].sourceLanguage = sourceLanguage
     /\ lastOk.last[1].targetLanguage = targetLanguage
     /\ lastOk.last[1].result = translatedText

\* C2: whenever sourceLanguage equals targetLanguage, translatedText equals
\* sourceText, or is empty when sourceText is blank.
C2_SameLanguageCopy ==
  sourceLanguage = targetLanguage =>
    translatedText = (IF IsBlank(sourceText) THEN <<>> ELSE sourceText)

\* C3: a translate request is issued only by a step that starts with
\* isThrottled and isTranslating false and nothing in flight, and it carries
\* differing languages and a non-blank text; at most one request is in flight.
C3_RequestGuards ==
  /\ [](Len(trReqs) <= 1)
  /\ [][Len(trReqs') > Len(trReqs) =>
          /\ ~isThrottled /\ ~isTranslating /\ trReqs = <<>>
          /\ Len(trReqs') = 1
          /\ trReqs'[1].sourceLanguage # trReqs'[1].targetLanguage
          /\ ~IsBlank(trReqs'[1].text)]_vars

\* a language change made while a request is in flight: rejected, not queued
C3_Witness ==
  /\ lastEvent = "sourceLanguage"
  /\ Len(trReqs) = 1
  /\ isTranslating
  /\ sourceLanguage # targetLanguage
  /\ ~IsBlank(sourceText)

\* C4: every completion of a translate call, failed or successful, leaves
\* isThrottled true with a cool-down timer pending, and no step taken while a
\* cool-down timer is pending issues a translate request.
C4_CoolDown ==
  /\ [][Len(trReqs') < Len(trReqs) => throttleTimers' > 0 /\ isThrottled']_vars
  /\ [][throttleTimers > 0 => Len(trReqs') <= Len(trReqs)]_vars

\* a submission made during the cool-down that follows a failed call
C4_Witness ==
  /\ lastEvent = "targetLanguage"
  /\ throttleTimers = 1
  /\ trReqs = <<>>
  /\ "throttled" \in toasts
  /\ translatedText = <<>>
  /\ ~IsBlank(sourceText)

\* C5: every translate submission (button, Ctrl+Enter, language change, swap)
\* with a non-blank text and differing languages that is made while
\* isThrottled is true and no request is in flight shows the "throttled"
\* notice.
C5_ThrottledNotice ==
  [][(/\ lastEvent' \in TranslateTriggers
      /\ isThrottled /\ ~isTranslating
      /\ ~IsBlank(sourceText')
      /\ sourceLanguage' # targetLanguage')
     => "throttled" \in toasts']_vars

\* C7: a source-language change, target-language change or swap that leaves a
\* non-blank source text and differing languages issues a translate request
\* carrying the updated text and languages.
C7_AutoRetranslation ==
  [][(/\ lastEvent' \in {"sourceLanguage", "targetLanguage", "swap"}
      /\ ~IsBlank(sourceText')
      /\ sourceLanguage' # targetLanguage')
     => trReqs' = Append(trReqs, RequestFor(sourceText', sourceLanguage', targetLanguage'))]_vars

\* C8: handleSwapLanguages exchanges the languages, stores the previous
\* translatedText cut to the word limit as sourceText, and then: issues
\* exactly one request with the post-swap languages and the moved text when
\* that text is non-blank and the languages differ; copies the moved text to
\* translatedText when they are equal; clears translatedText when it is blank.
C8_SwapSemantics ==
  [][(lastEvent' = "swap" /\ HandleSwapLanguages) =>
       /\ sourceLanguage' = targetLanguage
       /\ targetLanguage' = sourceLanguage
       /\ sourceText' = ExpectedSource(translatedText)
       /\ IF ~IsBlank(sourceText') /\ sourceLanguage' # targetLanguage'
          THEN trReqs' = Append(trReqs, RequestFor(sourceText', targetLanguage, sourceLanguage))
          ELSE /\ trReqs' = trReqs
               /\ translatedText' = (IF IsBlank(sourceText') THEN <<>> ELSE sourceText')]_vars

\* a swap that moved a text over the limit and issued the request for it
C8_Witness ==
  /\ lastEvent = "swap"
  /\ "wordLimitSwap" \in toasts
  /\ sourceLanguage = "vi" /\ targetLanguage = "en"
  /\ trReqs = <<RequestFor(<<"X", Space, "y", ".">>, "vi", "en")>>
  /\ sourceText = <<"X", Space, "y", ".">>

\* C9: on the typed, the transcription and the swap path the text stored as
\* sourceText is the entering text when it has at most WORD_LIMIT words, and
\* otherwise its first WORD_LIMIT words joined by single spaces.
C9_WordLimit ==
  [][/\ lastEvent' = "type" =>
          \A t \in TypedTexts : HandleSourceTextChange(t) => sourceText' = ExpectedSource(t)
     /\ lastEvent' = "sttOk" =>
          \A i \in 1..MaxMic, t \in Transcriptions :
             SttOk(i, t) => sourceText' = ExpectedSource(t)
     /\ lastEvent' = "swap" =>
          (HandleSwapLanguages => sourceText' = ExpectedSource(translatedText))]_vars

\* a typed text over the limit was stored cut to its first words
C9_Witness ==
  /\ lastEvent = "type"
  /\ "wordLimit" \in toasts
  /\ sourceText = <<"b", Space, "a">>

\* C6: the response, successful or failed, of an enhancement request after
\* which a later request was issued changes neither processedEnhancedText nor
\* isLoadingEnhancement, whether it arrives before or after the later
\* request's response.
C6_StaleEnhancementDiscarded ==
  [][(lastEvent' \in {"enhanceOk", "enhanceFail"}) =>
       \A i \in DOMAIN enhReqs :
         (/\ enhReqs[i].superseded
          /\ Len(enhReqs') < Len(enhReqs)
          /\ enhReqs' = RemoveAt(enhReqs, i))
         => /\ processedEnhancedText' = processedEnhancedText
            /\ isLoadingEnhancement' = isLoadingEnhancement]_vars

\* the earlier request's response has arrived while the later request is
\* still in flight and loading
C6_Witness ==
  /\ lastEvent = "enhanceOk"
  /\ Len(enhReqs) = 1
  /\ enhReqs[1].live /\ ~enhReqs[1].superseded
  /\ isLoadingEnhancement
  /\ processedEnhancedText = Null

\* C10: a lookup issues a get-word-details request only when no request for
\* the same (normalized word, language) is in flight and none is cached, so
\* that the same key looked up twice is requested once.
C10_OneRequestPerKey ==
  [][(lastEvent' = "wordClick" /\ Len(wordReqs') > Len(wordReqs)) =>
       LET key == wordReqs'[Len(wordReqs')].cacheKey IN
       /\ ~CacheHas(key)
       /\ \A i \in DOMAIN wordReqs : wordReqs[i].cacheKey # key]_vars

\* C11: a cache entry, once present, is never overwritten and never removed:
\* every step keeps every entry of wordDetailsCache as it is.
C11_CacheEntriesStable ==
  [][\A e \in wordDetailsCache : e \in wordDetailsCache']_vars

\* C12: whenever currentWordDetails is non-null it is the record for the word
\* in activeWordForDefinition, the most recently clicked word.
C12_DetailsOfActiveWord ==
  currentWordDetails # NoDetails =>
    currentWordDetails.definedWord = CleanWord(activeWordForDefinition)

\* C13: when a lookup finishes, the result slot is filled and loading is off:
\* on success with the server record for the normalized word, on failure with
\* the synthetic record for the normalized word, with empty synonyms and
\* antonyms, and a failure leaves the cache as it was.
C13_LookupFillsSlot ==
  [][(lastEvent' \in {"wordOk", "wordFail"}) =>
       \A i \in DOMAIN wordReqs :
         (Len(wordReqs') < Len(wordReqs) /\ wordReqs' = RemoveAt(wordReqs, i)) =>
           /\ wordReqs[i].cleanedWord # <<>>
           /\ currentWordDetails' # NoDetails
           /\ currentWordDetails'.definedWord = wordReqs[i].cleanedWord
           /\ ~isWordDetailLoading'
           /\ (lastEvent' = "wordOk") => currentWordDetails'.meaning \in Meanings
           /\ (lastEvent' = "wordFail") =>
                /\ currentWordDetails'.meaning = "couldNotFetch"
                /\ currentWordDetails'.synonyms = <<>>
                /\ currentWordDetails'.antonyms = <<>>
                /\ wordDetailsCache' = wordDetailsCache
                /\ "definitionError" \in toasts']_vars

\* a lookup has failed with nothing cached: the slot holds the synthetic record
C13_Witness ==
  /\ lastEvent = "wordFail"
  /\ currentWordDetails = FailureRecord(CleanWord(activeWordForDefinition))
  /\ wordDetailsCache = {}
  /\ ~isWordDetailLoading

\* C14: at most one recording session is active at any time: never are two
\* microphone streams, or two recorders, live together.
C14_OneRecordingSession == Len(recorders) <= 1

\* no exit path is under way and no session is left for the user to end
RecordingIdle ==
  /\ micPending = 0
  /\ \A i \in DOMAIN recorders : recorders[i] \notin {"stopped", "processing"}
  /\ ~(mounted /\ recorderRef # 0 /\ recorders[recorderRef] = "recording")

\* C15: every microphone stream that was acquired is released on every exit
\* path: once the exit paths have run to their end (nothing pending, no
\* session the user can still end), no acquired stream is unreleased.
C15_StreamsReleased == RecordingIdle => recorders = <<>>

\* C16: when the transcription response arrives, on success sourceText is the
\* transcription cut to the word limit, translatedText is cleared and the
\* enhancement panel is reset; on failure sourceText, sourceWordCount and
\* translatedText stay and the destructive notice is shown; in both cases
\* isProcessingAudio is false afterwards.
C16_TranscriptionOutcome ==
  [][/\ (lastEvent' = "sttOk") =>
          /\ \E t \in Transcriptions :
                /\ sourceText' = ExpectedSource(t)
                /\ sourceWordCount' = Min(WordCount(t), WORD_LIMIT)
                /\ ("wordLimitSpeech" \in toasts') = (WordCount(t) > WORD_LIMIT)
          /\ translatedText' = <<>>
          /\ ~enhancementFeaturesEnabled'
          /\ customInstruction' = <<>>
          /\ processedEnhancedText' = Null
          /\ ~isLoadingEnhancement'
          /\ \A k \in DOMAIN enhReqs' : ~enhReqs'[k].live
          /\ ~isProcessingAudio'
     /\ (lastEvent' = "sttFail") =>
          /\ sourceText' = sourceText
          /\ sourceWordCount' = sourceWordCount
          /\ translatedText' = translatedText
          /\ "speechFailed" \in toasts'
          /\ ~isProcessingAudio']_vars

\* a transcription over the limit has replaced the source while an
\* enhancement request of the panel was in flight
C16_Witness ==
  /\ lastEvent = "sttOk"
  /\ "wordLimitSpeech" \in toasts
  /\ sourceText = <<"b", Space, "b">>
  /\ translatedText = <<>>
  /\ Len(enhReqs) = 1 /\ ~enhReqs[1].live

C18_SampleDecoding ==
  \A k \in DOMAIN pcmSources :
    LET channelData == pcmSources[k].channelData
        bytes == audioSrc.bytes
    IN /\ Len(bytes) = 2 * Len(channelData)
       /\ \A j \in DOMAIN channelData :
            /\ channelData[j] = Signed16(bytes[2 * j] * 256 + bytes[2 * j - 1])
            /\ channelData[j] \in -32768..32767
       /\ bytes = <<0, 128, 255, 127>> => channelData = <<-32768, 32767>>

\* the known payload is playing
C18_Witness ==
  /\ Len(pcmSources) = 1
  /\ audioSrc = L16(<<0, 128, 255, 127>>)
  /\ pcmSources[1].channelData = <<-32768, 32767>>

\* C19: when a translation request fails, the destructive notice is shown,
\* translatedText is cleared, isTranslating is false, and sourceText,
\* sourceLanguage, targetLanguage and sourceWordCount are unchanged.
C19_TranslationFailure ==
  [][(lastEvent' = "translateFail") =>
       /\ "translationFailed" \in toasts'
       /\ translatedText' = <<>>
       /\ ~isTranslating'
       /\ sourceText' = sourceText
       /\ sourceLanguage' = sourceLanguage
       /\ targetLanguage' = targetLanguage
       /\ sourceWordCount' = sourceWordCount]_vars

\* a request has failed: the translation is cleared and the cool-down runs
C19_Witness ==
  /\ lastEvent = "translateFail"
  /\ toasts = {"translationFailed"}
  /\ translatedText = <<>>
  /\ ~IsBlank(sourceText)
  /\ ~isTranslating /\ isThrottled
  /\ throttleTimers = 1

\* C20: no request is issued as a consequence of a failure: the step of a
\* response, failed or successful, takes exactly its own request out of
\* flight and sends none, and every step that puts a request in flight is one
\* user action and sends exactly one.
C20_NoAutomaticRetry ==
  [][/\ (lastEvent' \in ResponseEvents) => RequestsInFlight' = RequestsInFlight - 1
     /\ (RequestsInFlight' > RequestsInFlight) =>
          /\ lastEvent' \in RequestEvents
          /\ RequestsInFlight' = RequestsInFlight + 1]_vars

\* a lookup has failed and nothing is in flight after it
C20_Witness ==
  /\ lastEvent = "wordFail"
  /\ RequestsInFlight = 0
  /\ currentWordDetails.meaning = "couldNotFetch"

\* C21: whenever a text entering the source panel on the typed, the
\* transcription or the swap path has more than WORD_LIMIT words, and is
\* therefore cut, the step shows a word-limit notice.
C21_TruncationNotice ==
  [][/\ lastEvent' = "type" =>
          \A t \in TypedTexts \cup PastedTexts :
             (HandleSourceTextChange(t) /\ WordCount(t) > WORD_LIMIT)
               => "wordLimit" \in toasts'
     /\ lastEvent' = "sttOk" =>
          \A i \in 1..MaxMic, t \in Transcriptions :
             (SttOk(i, t) /\ mounted /\ WordCount(t) > WORD_LIMIT)
               => "wordLimitSpeech" \in toasts'
     /\ lastEvent' = "swap" =>
          ((HandleSwapLanguages /\ WordCount(translatedText) > WORD_LIMIT)
             => "wordLimitSwap" \in toasts')]_vars

\* no text-to-speech request, raw PCM source, play() promise or start of the
\* shared player is outstanding
TtsIdle ==
  /\ ttsReqs = <<>>
  /\ pcmSources = <<>>
  /\ playPromises = <<>>
  /\ audioPlayer.state # "starting"

\* the loading flag of a panel after the step
LoadingAfter(p) == IF p = "source" THEN isLoadingSourceTTS' ELSE isLoadingTargetTTS'

\* the step resets the flag of panel p and changes nothing else of the session
OnlyResets(p) ==
  /\ ~LoadingAfter(p)
  /\ \A q \in Panels \ {p} : LoadingAfter(q) = IsLoadingSpeak(q)
  /\ UNCHANGED <<sessionVars, translateVars, recordingVars, enhanceVars, wordVars,
                 pcmSources>>

\* the answer of the service is refused before anything is played
Refused(audio) ==
  \/ audio.kind = "invalid"
  \/ audio.kind \in {"l16NoBase64", "l16BadBase64", "l16"} /\ PcmRefused(audio)

C23_EnhancementFailure ==
  [][lastEvent' = "enhanceFail" =>
       \A i \in DOMAIN enhReqs :
         enhReqs' = RemoveAt(enhReqs, i) =>
           IF ~enhReqs[i].superseded
           THEN /\ processedEnhancedText' = enhReqs[i].text
                /\ "enhancementError" \in toasts'
                /\ ~isLoadingEnhancement'
           ELSE /\ toasts' = NoToasts
                /\ UNCHANGED <<processedEnhancedText, isLoadingEnhancement,
                               enhancementFeaturesEnabled, customInstruction>>]_vars

\* C24: every enhancement submission is tagged with a token strictly greater
\* than the token of every earlier submission, here those still in flight,
\* also when the panel was reset in between.
C24_TokenMonotonic ==
  [][(lastEvent' = "generate" /\ Len(enhReqs') > Len(enhReqs)) =>
       \A i \in DOMAIN enhReqs : enhReqs'[Len(enhReqs')].token > enhReqs[i].token]_vars

\* C25: in every state sourceWordCount is the number of whitespace-delimited
\* words of sourceText and is at most WORD_LIMIT.
C25_WordCount ==
  /\ sourceWordCount = WordCount(sourceText)
  /\ sourceWordCount <= WORD_LIMIT

\* a transcription over the limit was stored cut and counted
C25_Witness ==
  /\ lastEvent = "sttOk"
  /\ sourceText = <<"b", Space, "b">>
  /\ sourceWordCount = WORD_LIMIT

\* C26: isThrottled is true whenever isTranslating is true, so that no call
\* of handleTranslateText passes the isThrottled check and stops at the
\* isTranslating check.
C26_ThrottledWhileTranslating == isTranslating => isThrottled

\* a call made while the request is in flight was answered with the notice
C26_Witness ==
  /\ isTranslating
  /\ Len(trReqs) = 1
  /\ "throttled" \in toasts
  /\ lastEvent = "sourceLanguage"

\* C27: whenever sourceText is blank, translatedText is empty.
C27_BlankSourceEmptyTranslation == IsBlank(sourceText) => translatedText = <<>>

\* C28: at most one cool-down timer is pending; isThrottled is true only
\* while a request is in flight or a timer is pending; the step in which the
\* timer fires leaves isThrottled and isTranslating false; and a pending timer
\* is always followed by such a state.
C28_NoLockout ==
  /\ [](throttleTimers <= 1)
  /\ [](isThrottled => (isTranslating \/ throttleTimers = 1))
  /\ [][lastEvent' = "throttleTimeout" => (~isThrottled' /\ ~isTranslating')]_vars
  /\ (throttleTimers > 0) ~> (~isThrottled /\ ~isTranslating)

\* the timer of a successful call has fired
C28_Witness ==
  /\ lastEvent = "throttleTimeout"
  /\ translatedText = <<"x">>
  /\ throttleTimers = 0
  /\ ~isThrottled /\ ~isTranslating

\* C29: the completion of an earlier lookup for another word leaves
\* isWordDetailLoading true when the request issued by the most recent click,
\* the lookup of the active word, is still in flight.
C29_LoadingWhileInFlight ==
  [][lastEvent' \in {"wordOk", "wordFail"} =>
       \A i \in DOMAIN wordReqs :
         (/\ wordReqs' = RemoveAt(wordReqs, i)
          /\ wordReqs[i].word # activeWordForDefinition
          /\ wordReqs' # <<>>
          /\ wordReqs'[Len(wordReqs')].word = activeWordForDefinition)
         => isWordDetailLoading']_vars

\* C30: whenever enhancementFeaturesEnabled is false, processedEnhancedText
\* is null.
C30_DisabledShowsNothing == ~enhancementFeaturesEnabled => processedEnhancedText = Null
====
